---- MODULE Spec2Model ----
(***************************************************************************)
(* yabasco: the Smith-chart canvas (src/smith_chart_canvas.py), its grid   *)
(* settings and the impedance panels that drive it                         *)
(* (src/impedance_input_panel.py, src/src/impedance_input_panel.py).       *)
(*                                                                         *)
(* Conventions                                                             *)
(*  - A Python optional argument is a sequence: <<>> is None, <<v>> is v.  *)
(*  - A complex impedance is a pair <<re, im>> of integers (ohms).         *)
(*  - A derived complex value is <<a, b, d>> = (a + bj)/d with d > 0, in   *)
(*    lowest terms; d = 0 is the infinite sentinel complex(inf, 0).        *)
(*    Arithmetic is exact: floating-point rounding is not modelled.        *)
(*  - x_label_at_r is kept in hundredths (100 is the source's 1.0).        *)
(*  - The axes content `ax` is the ordered list of what the redraw has    *)
(*    plotted.  A family of grid curves or labels drawn by one loop is one *)
(*    entry carrying the loop's parameters and color; a trace contributes  *)
(*    one entry per artist, recorded by its Gamma, not by sample points.   *)
(***************************************************************************)
EXTENDS Integers, Sequences, FiniteSets, TLC

VARIABLES
    grid,         \* SmithChartCanvas chart parameters (one record)
    impedances,   \* SmithChartCanvas.impedances: insertion-ordered dict
    ax,           \* artists currently held by self.ax
    exc,          \* exception the last operation let escape, or "none"
    op,           \* history: name of the last operation
    created,      \* history: number of traces ever created on the canvas
    seen,         \* history: pids that have ever had a trace on the canvas
    panels,       \* ImpedancePanelManager.panels: pid -> panel fields
    next_id,      \* ImpedancePanelManager.next_id
    assigned,     \* history: ids handed out by add_panel, in order
    panel2,       \* the ImpedancePanel of src/src/impedance_input_panel.py
    sent,         \* the keyword arguments of its last update_cb call, if any
    calc,         \* the last call of a module-level function: name, argument, result
    panel3        \* the ImpedancePanel of src/yabasco.py and its last cascade

canvasVars == <<grid, impedances, ax, exc, op, created, seen>>
mgrVars == <<panels, next_id, assigned>>
linkVars == <<panel2, sent>>
vars ==
    <<grid, impedances, ax, exc, op, created, seen, panels, next_id, assigned,
      panel2, sent, calc, panel3>>

(***************************************************************************)
(* Bounds of the model and enumerated inputs                               *)
(***************************************************************************)
MaxCreated == 3      \* traces ever created on the canvas in one run
MaxIds == 2          \* ids the manager hands out in one run
MaxCount == 6        \* circles or arcs of one grid family
MaxStride == 3       \* label strides
MaxPath == 4         \* points of a path handed to _plot_inside

Pids == {0, 1}
UserColor == "#000000"
GridColorIn == "#ff0000"
R1ColorIn == "#00ff00"
GammaColorIn == "#0000ff"

None == <<>>
Some(v) == <<v>>
IsNone(a) == Len(a) = 0
Opt(S) == {None} \cup {Some(v) : v \in S}

(***************************************************************************)
(* Exact arithmetic helpers                                                *)
(***************************************************************************)
Abs(n) == IF n < 0 THEN -n ELSE n

RECURSIVE GCD(_, _)
GCD(a, b) == IF b = 0 THEN a ELSE GCD(b, a % b)

\* a rational n/d (d > 0) in lowest terms
Rat(n, d) ==
    LET g == GCD(Abs(n), d)
    IN  IF g = 0 THEN <<0, 1>> ELSE <<n \div g, d \div g>>

RAdd(x, y) == Rat(x[1] * y[2] + y[1] * x[2], x[2] * y[2])
RSub(x, y) == Rat(x[1] * y[2] - y[1] * x[2], x[2] * y[2])
RMul(x, y) == Rat(x[1] * y[1], x[2] * y[2])
RLess(x, y) == x[1] * y[2] < y[1] * x[2]

\* np.linspace(start, stop, num) with the endpoint included: num samples
\* start + k*step for step = (stop - start)/(num - 1), the last one set to
\* stop; a single sample is start
linspace(start, stop, num) ==
    IF num <= 0 THEN <<>>
    ELSE IF num = 1 THEN <<start>>
    ELSE LET step == RMul(RSub(stop, start), <<1, num - 1>>)
         IN  [k \in 1..num |->
                IF k = num THEN stop ELSE RAdd(start, RMul(<<k - 1, 1>>, step))]

\* (a + bj)/d in lowest terms, d made positive
Cx(a, b, d) ==
    LET s == IF d < 0 THEN -1 ELSE 1
        g == GCD(GCD(Abs(a), Abs(b)), Abs(d))
    IN  IF g = 0 THEN <<0, 0, 1>>
        ELSE <<(s * a) \div g, (s * b) \div g, (s * d) \div g>>

CInf == <<1, 0, 0>>
CIsZero(z) == z[1] = 0 /\ z[2] = 0 /\ z[3] # 0

\* x / y for y # 0: (a+bj)/d * f/(c+ej) = (a+bj)(c-ej) f / (d (c^2+e^2))
CDiv(x, y) ==
    Cx((x[1] * y[1] + x[2] * y[2]) * y[3],
       (x[2] * y[1] - x[1] * y[2]) * y[3],
       x[3] * (y[1] * y[1] + y[2] * y[2]))

\* |z|^2 as a rational; <<1, 0>> for the infinite sentinel
MagSq(z) ==
    IF z[3] = 0 THEN <<1, 0>>
    ELSE Rat(z[1] * z[1] + z[2] * z[2], z[3] * z[3])

\* variant: the quotient without the except branch; the division by zero
\* yields 0 instead of the sentinel
gamma_from_normalized_unguarded(z) ==
    CDiv(<<z[1] - z[3], z[2], z[3]>>, <<z[1] + z[3], z[2], z[3]>>)

gamma_from_normalized(z) ==
    IF z[1] + z[3] = 0 /\ z[2] = 0
    THEN CInf                                   \* except ZeroDivisionError
    ELSE CDiv(<<z[1] - z[3], z[2], z[3]>>, <<z[1] + z[3], z[2], z[3]>>)

(***************************************************************************)
(* SmithChartCanvas: drawing (src/smith_chart_canvas.py)                   *)
(***************************************************************************)
COLOR_CYCLE ==
    <<"#e41a1c", "#377eb8", "#4daf4a", "#984ea3",
      "#ff7f00", "#ffff33", "#a65628", "#f781bf", "#999999">>

\* one entry of the axes content
Prim(kind, id, geom, color) ==
    [kind |-> kind, id |-> id, geom |-> geom, color |-> color]

\* the mask of _plot_inside, x*x + y*y <= 1.000001, on points given in
\* thousandths
Inside(pt) == pt[1] * pt[1] + pt[2] * pt[2] <= 1000001

\* variant: every point under the mask goes into one line
plot_inside_unbroken(path) ==
    LET idx == SelectSeq([i \in 1..Len(path) |-> i], LAMBDA i : Inside(path[i]))
    IN  IF idx = <<>> THEN <<>>
        ELSE <<<<idx, [j \in 1..Len(idx) |-> path[idx[j]]]>>>>

\* _plot_inside: idx are the positions under the mask, breaks the places
\* where idx is not consecutive; one line per slice of idx between breaks
\* and one for the rest.  Nothing is plotted when the mask is empty.  A line
\* is <<seg, points>>: the positions plotted and x[seg], y[seg]
plot_inside(path) ==
    LET idx == SelectSeq([i \in 1..Len(path) |-> i], LAMBDA i : Inside(path[i]))
        breaks == SelectSeq([b \in 1..(Len(idx) - 1) |-> b],
                            LAMBDA b : idx[b + 1] - idx[b] # 1)
        starts == <<1>> \o [k \in 1..Len(breaks) |-> breaks[k] + 1]
        stops == breaks \o <<Len(idx)>>
        slice(k) == [j \in 1..(stops[k] - starts[k] + 1) |-> idx[starts[k] + j - 1]]
    IN  IF idx = <<>> THEN <<>>
        ELSE [k \in 1..Len(starts) |->
                <<slice(k), [j \in 1..Len(slice(k)) |-> path[slice(k)[j]]]>>]

\* one constant-R circle of the outer family: center R/(R+1) on the real
\* axis, radius 1/(R+1); geom is <<center, radius>> as two fractions.  The
\* circle lies within the unit disk, so _plot_inside plots it as one line
r_circle(R, color) ==
    Prim("resistance_circle", R, <<R, R + 1, 1, R + 1>>, color)

\* variant: the loop runs over range(num_r_outer_lines)
outer_resistance_circles_from_zero(g) ==
    [k \in 1..g.num_r_outer_lines |-> r_circle(k - 1, g.resistance_color)]

\* for R in range(1, num_r_outer_lines + 1)
outer_resistance_circles(g) ==
    [R \in 1..g.num_r_outer_lines |-> r_circle(R, g.resistance_color)]

\* the inner resistance values of _draw_resistance_circles and
\* _draw_resistance_labels
r_inner(num_r_inner_lines) ==
    IF num_r_inner_lines > 0
    THEN linspace(<<1, 100>>, <<1, 1>>, num_r_inner_lines)
    ELSE <<>>

\* the circles of the inner family, one <<R, center, rad>> per value:
\* center R/(R+1), radius 1/(R+1)
inner_resistance_circles(num_r_inner_lines) ==
    LET rs == r_inner(num_r_inner_lines)
    IN  [k \in 1..Len(rs) |->
           <<rs[k],
             Rat(rs[k][1], rs[k][1] + rs[k][2]),
             Rat(rs[k][2], rs[k][1] + rs[k][2])>>]

\* x_vals of _draw_reactance_arcs_and_labels
x_vals(num_x_lines) == linspace(<<1, 10>>, <<num_x_lines, 1>>, num_x_lines)

\* the arcs of _draw_reactance_arcs_and_labels: for the j-th value X a +jX
\* circle centered at (1, 1/X) and a -jX circle centered at (1, -1/X), both of
\* radius 1/X (each then clipped by _plot_inside).  An entry is
\* <<X, rad, center of +jX, center of -jX>>
reactance_arcs(num_x_lines) ==
    LET xs == x_vals(num_x_lines)
    IN  [j \in 1..Len(xs) |->
           LET rad == Rat(xs[j][2], xs[j][1])
           IN  <<xs[j], rad,
                 <<<<1, 1>>, rad>>,
                 <<<<1, 1>>, <<-rad[1], rad[2]>>>>>>]

\* which circles _draw_resistance_labels labels, as positions counted from 1
\* within each family: the outer loop tests R % every over range(1, n + 1),
\* the inner loop idx % every over enumerate(r_inner, start=1)
resistance_label_positions(num_r_outer_lines, num_r_inner_lines, every) ==
    <<{R \in 1..num_r_outer_lines : R % every = 0},
      {idx \in 1..Len(r_inner(num_r_inner_lines)) : idx % every = 0}>>

\* which arcs _draw_reactance_arcs_and_labels labels: j % every over
\* enumerate(x_vals, start=1), tested once for +jX and once for -jX
reactance_label_positions(num_x_lines, every) ==
    <<{j \in 1..Len(x_vals(num_x_lines)) : j % every = 0},
      {j \in 1..Len(x_vals(num_x_lines)) : j % every = 0}>>

\* which circles and arcs plot_chart of src/yabasco.py labels: the
\* resistance loop enumerates concatenate((r_inner, r_outer)) from 0 and
\* tests i % label_resistance_every, the reactance loop enumerates x_vals
\* from 0 and tests j % label_reactance_every for both signs.  The result
\* is <<outer, inner, +jX, -jX>>, positions counted from 1 within each family
plot_chart_label_positions(num_r_lines, num_r_inner_lines, num_x_lines, label_resistance_every, label_reactance_every) ==
    LET n_inner == Len(linspace(<<1, 100>>, <<1, 1>>, num_r_inner_lines))
        n_outer == Len(linspace(<<11, 10>>, <<10, 1>>, num_r_lines))
        n_x == Len(linspace(<<1, 10>>, <<10, 1>>, num_x_lines))
        labelled == {i \in 0..(n_inner + n_outer - 1) :
                        i % label_resistance_every = 0}
        xlabelled == {j \in 0..(n_x - 1) : j % label_reactance_every = 0}
    IN  <<{i - n_inner + 1 : i \in {k \in labelled : k >= n_inner}},
          {i + 1 : i \in {k \in labelled : k < n_inner}},
          {j + 1 : j \in xlabelled},
          {j + 1 : j \in xlabelled}>>

\* the constant-R circles: R = 1..num_r_outer_lines, then (if the count is
\* positive) np.linspace(0.01, 1, num_r_inner_lines), all in resistance_color
draw_resistance_circles(g) ==
    outer_resistance_circles(g)
    \o (IF g.num_r_inner_lines > 0
        THEN <<Prim("resistance_circles_inner", 0,
                    <<g.num_r_inner_lines>>, g.resistance_color)>>
        ELSE <<>>)

\* the R = 1 circle in its own color
highlight_r1(g) == <<Prim("r1_circle", 0, <<1, 2, 1, 2>>, g.r1_color)>>

\* the +jX/-jX arcs of np.linspace(0.1, num_x_lines, num_x_lines), every
\* label_reactance_every-th pair labelled at Re(z) = x_label_at_r.
\* np.linspace rejects a negative sample count; `j % 0` raises once the first
\* positive arc has been plotted
draw_reactance_arcs_and_labels(g) ==
    IF g.num_x_lines < 0 THEN [ax |-> <<>>, exc |-> "ValueError"]
    ELSE IF g.num_x_lines >= 1 /\ g.label_reactance_every = 0
    THEN [ax |-> <<Prim("reactance_first_arc", 1, <<g.num_x_lines>>,
                        g.reactance_color)>>,
          exc |-> "ZeroDivisionError"]
    ELSE [ax |-> <<Prim("reactance_arcs", 0,
                        <<g.num_x_lines, g.label_reactance_every,
                          g.x_label_at_r>>,
                        g.reactance_color)>>,
          exc |-> "none"]

draw_unit_circle(g) ==
    <<Prim("unit_circle", 0, <<0, 1, 1, 1>>, g.unit_circle_color)>>

\* the labels of every label_resistance_every-th circle, outer then inner;
\* `R % 0` raises on the first circle there is, before any label is placed
draw_resistance_labels(g) ==
    IF g.label_resistance_every = 0
       /\ (g.num_r_outer_lines >= 1 \/ g.num_r_inner_lines > 0)
    THEN [ax |-> <<>>, exc |-> "ZeroDivisionError"]
    ELSE [ax |-> <<Prim("resistance_labels", 0,
                        <<g.num_r_outer_lines, g.num_r_inner_lines,
                          g.label_resistance_every>>,
                        g.resistance_color)>>,
          exc |-> "none"]

\* zL / z0 raises for z0 = 0 and the trace is skipped (except Exception)
Drawable(data) == ~(data.z0[1] = 0 /\ data.z0[2] = 0)

gamma_of(data) ==
    gamma_from_normalized(
        CDiv(<<data.zL[1], data.zL[2], 1>>, <<data.z0[1], data.z0[2], 1>>))

draw_impedance(data) ==
    IF ~Drawable(data) THEN <<>>
    ELSE LET gamma == gamma_of(data)
         IN  <<Prim("marker", data.pid, gamma, data.color),
               Prim("radial", data.pid, gamma, data.color),
               Prim("annotation", data.pid, gamma \o MagSq(gamma), data.color)>>
             \o (IF data.show_swr
                 THEN <<Prim("swr_circle", data.pid, MagSq(gamma), data.color)>>
                 ELSE <<>>)

RECURSIVE draw_impedances(_)
draw_impedances(imps) ==
    IF imps = <<>> THEN <<>>
    ELSE draw_impedance(Head(imps)) \o draw_impedances(Tail(imps))

\* the legend lists the labelled handles: one "Z<pid>" per plotted marker
legend_entries(imps) ==
    SelectSeq(imps, Drawable)

legend(imps) ==
    IF imps = <<>> THEN <<>>
    ELSE <<Prim("legend", 0,
                [k \in 1..Len(legend_entries(imps)) |-> legend_entries(imps)[k].pid],
                "")>>

\* variant: the axes are not cleared before the redraw
configure_axes_keep(a) == a

\* _configure_axes: self.ax.clear() drops every artist the axes held
configure_axes(a) == <<>>

\* _draw_chart: the axes are cleared and refilled in a fixed order; an
\* exception leaves what was plotted before it
draw_chart(a, g, imps) ==
    LET a1 == configure_axes(a) \o draw_resistance_circles(g)
              \o (IF g.show_r1 THEN highlight_r1(g) ELSE <<>>)
        rx == draw_reactance_arcs_and_labels(g)
        a2 == a1 \o rx.ax \o (IF g.show_unit THEN draw_unit_circle(g) ELSE <<>>)
        rl == draw_resistance_labels(g)
    IN  IF rx.exc # "none" THEN [ax |-> a1 \o rx.ax, exc |-> rx.exc]
        ELSE IF rl.exc # "none" THEN [ax |-> a2 \o rl.ax, exc |-> rl.exc]
        ELSE [ax |-> a2 \o rl.ax \o draw_impedances(imps) \o legend(imps),
              exc |-> "none"]

(***************************************************************************)
(* SmithChartCanvas: state and mutation operations                         *)
(***************************************************************************)
\* SmithChartCanvas.__init__: the chart parameters
grid_defaults ==
    [num_r_outer_lines |-> 7, num_r_inner_lines |-> 7, num_x_lines |-> 9,
     x_label_at_r |-> 100,
     label_resistance_every |-> 2, label_reactance_every |-> 2,
     show_radial |-> TRUE, show_unit |-> TRUE, show_r1 |-> TRUE,
     resistance_color |-> "#323232", reactance_color |-> "#323232",
     radial_line_color |-> "#323232", unit_circle_color |-> "#323232",
     gamma_circle_color |-> "#323232", r1_color |-> "#e6550d"]

Ids(imps) == {imps[k].pid : k \in 1..Len(imps)}
Trace(imps, pid) == imps[CHOOSE k \in 1..Len(imps) : imps[k].pid = pid]

\* Python truthiness of an optional complex: None and 0j are falsy
Truthy(z) == ~IsNone(z) /\ z[1] # <<0, 0>>

default_color(imps) == COLOR_CYCLE[(Len(imps) % Len(COLOR_CYCLE)) + 1]

new_trace(imps, pid, zL, z0) ==
    [pid |-> pid,
     zL |-> IF Truthy(zL) THEN zL[1] ELSE <<50, 0>>,
     z0 |-> IF Truthy(z0) THEN z0[1] ELSE <<50, 0>>,
     color |-> default_color(imps),
     show_swr |-> FALSE]

\* variant: the `x or default` idiom of the creation branch applied to the
\* stores as well
store_fields_or_default(data, zL, z0, color) ==
    [data EXCEPT !.zL = IF Truthy(zL) THEN zL[1] ELSE <<50, 0>>,
                 !.z0 = IF Truthy(z0) THEN z0[1] ELSE <<50, 0>>,
                 !.color = IF IsNone(color) THEN @ ELSE color[1]]

store_fields(data, zL, z0, color) ==
    [data EXCEPT !.zL = IF IsNone(zL) THEN @ ELSE zL[1],
                 !.z0 = IF IsNone(z0) THEN @ ELSE z0[1],
                 !.color = IF IsNone(color) THEN @ ELSE color[1]]

\* the dict after update_impedance: a missing pid is inserted at the end
updated_impedances(imps, pid, zL, z0, color) ==
    LET base == IF pid \in Ids(imps) THEN imps
                ELSE Append(imps, new_trace(imps, pid, zL, z0))
    IN  [k \in 1..Len(base) |->
            IF base[k].pid = pid THEN store_fields(base[k], zL, z0, color)
            ELSE base[k]]

\* variant: the flag is switched on instead of negated
toggled_impedances_on(imps, pid) ==
    [k \in 1..Len(imps) |->
        IF imps[k].pid = pid THEN [imps[k] EXCEPT !.show_swr = TRUE] ELSE imps[k]]

toggled_impedances(imps, pid) ==
    [k \in 1..Len(imps) |->
        IF imps[k].pid = pid THEN [imps[k] EXCEPT !.show_swr = ~@] ELSE imps[k]]

\* variant: the dict is emptied instead of one key being deleted
removed_impedances_all(imps, pid) ==
    <<>>

removed_impedances(imps, pid) ==
    SelectSeq(imps, LAMBDA d : d.pid # pid)

\* self._draw_chart(): refill the axes from the chart's current state; the
\* result records whether an exception escaped the redraw
draw(c) ==
    LET d == draw_chart(c.ax, c.grid, c.impedances)
    IN  [c EXCEPT !.ax = d.ax, !.exc = d.exc]

\* A canvas method maps the canvas c = [grid, impedances, ax, exc] to the
\* canvas it leaves behind; exc is the exception that escaped it, if any.
update_impedance(c, pid, zL, z0, color) ==
    draw([c EXCEPT !.impedances = updated_impedances(@, pid, zL, z0, color)])

tog_swrc(c, pid) ==
    IF pid \in Ids(c.impedances)
    THEN draw([c EXCEPT !.impedances = toggled_impedances(@, pid)])
    ELSE [c EXCEPT !.exc = "none"]

remove_impedance(c, pid) ==
    IF pid \in Ids(c.impedances)
    THEN draw([c EXCEPT !.impedances = removed_impedances(@, pid)])
    ELSE [c EXCEPT !.exc = "none"]

\* `if x is not None: self.attr = x`
keep_or_set(old, a) == IF IsNone(a) THEN old ELSE a[1]

\* variant: grid_color also recolors the radial lines, as the comment in the
\* source and the settings panel's docstring say
grid_color_targets_radial ==
    {"resistance_color", "reactance_color", "radial_line_color",
     "unit_circle_color", "gamma_circle_color"}

\* variant: grid_color recolors all five drawn colors, the R = 1 highlight too
grid_color_targets_r1 ==
    {"resistance_color", "reactance_color",
     "unit_circle_color", "gamma_circle_color", "r1_color"}

\* the attributes the grid_color branch of update_grid assigns
grid_color_targets ==
    {"resistance_color", "reactance_color",
     "unit_circle_color", "gamma_circle_color"}

\* the chart parameters after update_grid(**kw), in the order of the source's
\* assignments; show_radial is accepted but never stored
updated_grid(g, kw) ==
    LET fan(attr, old) ==
            IF attr \in grid_color_targets THEN keep_or_set(old, kw.grid_color)
            ELSE old
    IN  [num_r_outer_lines |-> keep_or_set(g.num_r_outer_lines, kw.num_r_outer),
         num_r_inner_lines |-> keep_or_set(g.num_r_inner_lines, kw.num_r_inner),
         num_x_lines |-> keep_or_set(g.num_x_lines, kw.num_x),
         label_resistance_every |->
             keep_or_set(g.label_resistance_every, kw.label_r_every),
         label_reactance_every |->
             keep_or_set(g.label_reactance_every, kw.label_x_every),
         x_label_at_r |-> keep_or_set(g.x_label_at_r, kw.x_label_at_r),
         show_radial |-> g.show_radial,
         show_unit |-> keep_or_set(g.show_unit, kw.show_unit),
         show_r1 |-> keep_or_set(g.show_r1, kw.show_r1),
         resistance_color |-> fan("resistance_color", g.resistance_color),
         reactance_color |-> fan("reactance_color", g.reactance_color),
         radial_line_color |-> fan("radial_line_color", g.radial_line_color),
         unit_circle_color |-> fan("unit_circle_color", g.unit_circle_color),
         gamma_circle_color |->
             keep_or_set(fan("gamma_circle_color", g.gamma_circle_color),
                         kw.gamma_color),
         r1_color |-> keep_or_set(fan("r1_color", g.r1_color), kw.r1_color)]

update_grid(c, kw) ==
    draw([c EXCEPT !.grid = updated_grid(@, kw)])

\* the canvas as the variables hold it, and a step that leaves it as c
Canvas == [grid |-> grid, impedances |-> impedances, ax |-> ax, exc |-> "none"]

SetCanvas(c) ==
    /\ grid' = c.grid
    /\ impedances' = c.impedances
    /\ ax' = c.ax
    /\ exc' = c.exc
    /\ created' = created + Cardinality(Ids(c.impedances) \ Ids(impedances))
    /\ seen' = seen \cup Ids(c.impedances)

\* a call of one canvas method from outside the panels
CanvasCall(name, c) ==
    /\ SetCanvas(c)
    /\ op' = name
    /\ UNCHANGED mgrVars
    /\ UNCHANGED linkVars
    /\ calc' = calc
    /\ panel3' = panel3

UpdateImpedance(pid, zL, z0, color) ==
    CanvasCall("update_impedance", update_impedance(Canvas, pid, zL, z0, color))

TogSwrc(pid) == CanvasCall("tog_swrc", tog_swrc(Canvas, pid))

RemoveImpedance(pid) ==
    CanvasCall("remove_impedance", remove_impedance(Canvas, pid))

UpdateGrid(kw) == CanvasCall("update_grid", update_grid(Canvas, kw))

\* render_scene: _draw_chart() called with no mutation before it
DrawChart == CanvasCall("draw_chart", draw(Canvas))

(***************************************************************************)
(* ImpedancePanel and ImpedancePanelManager                                *)
(* (src/impedance_input_panel.py; clear_all from                           *)
(* src/src/impedance_input_panel.py)                                       *)
(***************************************************************************)
\* complex(text.replace('i', 'j')) on the texts the model types; None stands
\* for ValueError
complex_of(text) ==
    CASE text = "50+0j" -> Some(<<50, 0>>)
      [] text = "0+0j" -> Some(<<0, 0>>)
      [] text = "100" -> Some(<<100, 0>>)
      [] text = "50i" -> Some(<<0, 50>>)
      [] text = "0" -> Some(<<0, 0>>)
      [] OTHER -> None

\* the exact square root of a rational that is a perfect square
SqrtRat(q) ==
    <<CHOOSE k \in 0..q[1] : k * k = q[1], CHOOSE k \in 0..q[2] : k * k = q[2]>>

\* variant: the quotient upside down
swr_from_gamma_inverted(gamma) ==
    LET m2 == MagSq(gamma)
    IN  IF m2[1] >= m2[2] THEN <<1, 0>>
        ELSE LET m == SqrtRat(m2) IN Rat(m[2] - m[1], m[2] + m[1])

\* swr_from_gamma: (1 + |G|)/(1 - |G|), np.inf (here <<1, 0>>) for |G| >= 1
swr_from_gamma(gamma) ==
    LET m2 == MagSq(gamma)
    IN  IF m2[1] >= m2[2] THEN <<1, 0>>
        ELSE LET m == SqrtRat(m2) IN Rat(m[2] + m[1], m[2] - m[1])

\* ImpedancePanel.__init__: the four line edits, the color button's style
\* and the two read-outs
new_panel ==
    [zl_input |-> "50+0j", yl_input |-> "0+0j",
     z0_input |-> "50+0j", y0_input |-> "0+0j",
     color_btn |-> "",
     gamma_label |-> <<0, 0, 1>>, swr_label |-> <<1, 1>>]

\* variant: no early return for z0 == 0
on_change_unguarded(c, pid, p) ==
    LET zL == complex_of(p.zl_input)
        yl == complex_of(p.yl_input)
        z0 == complex_of(p.z0_input)
        y0 == complex_of(p.y0_input)
        quiet == [p |-> p, c |-> [c EXCEPT !.exc = "none"]]
    IN  IF IsNone(zL) \/ IsNone(yl) \/ IsNone(z0) \/ IsNone(y0) THEN quiet
        ELSE [p |-> p, c |-> update_impedance(c, pid, zL, z0, None)]

\* variant: Gamma is computed from zL itself, the division by z0 forgotten
on_change_unnormalized(c, pid, p) ==
    LET zL == complex_of(p.zl_input)
        yl == complex_of(p.yl_input)
        z0 == complex_of(p.z0_input)
        y0 == complex_of(p.y0_input)
        quiet == [p |-> p, c |-> [c EXCEPT !.exc = "none"]]
    IN  IF IsNone(zL) \/ IsNone(yl) \/ IsNone(z0) \/ IsNone(y0) THEN quiet
        ELSE IF z0[1] = <<0, 0>> THEN quiet
        ELSE LET gamma == gamma_from_normalized(<<zL[1][1], zL[1][2], 1>>)
             IN  [p |-> [p EXCEPT !.gamma_label = gamma,
                                  !.swr_label = swr_from_gamma(gamma)],
                  c |-> update_impedance(c, pid, zL, z0, None)]

\* ImpedancePanel._on_change of panel p with id pid on canvas c: the panel
\* and the canvas it leaves
on_change(c, pid, p) ==
    LET zL == complex_of(p.zl_input)
        yl == complex_of(p.yl_input)
        z0 == complex_of(p.z0_input)
        y0 == complex_of(p.y0_input)
        quiet == [p |-> p, c |-> [c EXCEPT !.exc = "none"]]
    IN  IF IsNone(zL) \/ IsNone(yl) \/ IsNone(z0) \/ IsNone(y0) THEN quiet
        ELSE IF z0[1] = <<0, 0>> THEN quiet
        ELSE LET gamma == gamma_from_normalized(
                              CDiv(<<zL[1][1], zL[1][2], 1>>,
                                   <<z0[1][1], z0[1][2], 1>>))
             IN  [p |-> [p EXCEPT !.gamma_label = gamma,
                                  !.swr_label = swr_from_gamma(gamma)],
                  c |-> update_impedance(c, pid, zL, z0, None)]

\* A manager method maps m = [panels, next_id] and the canvas c to what it
\* leaves; an exception that escapes the canvas ends the method at once.
remove_panel(m, c, pid) ==
    IF pid \in DOMAIN m.panels
    THEN [m |-> [m EXCEPT !.panels = [q \in DOMAIN @ \ {pid} |-> @[q]]],
          c |-> remove_impedance(c, pid)]
    ELSE [m |-> m, c |-> [c EXCEPT !.exc = "none"]]

\* variant: the new panel skips its initial calculation
add_panel_uncomputed(m, c) ==
    [m |-> [panels |-> m.panels @@ (m.next_id :> new_panel),
            next_id |-> m.next_id + 1],
     c |-> [c EXCEPT !.exc = "none"]]

\* ImpedancePanelManager.add_panel: the panel's constructor ends in
\* _on_change, which creates the trace
add_panel(m, c) ==
    LET pid == m.next_id
        r == on_change(c, pid, new_panel)
    IN  IF r.c.exc # "none" THEN [m |-> m, c |-> r.c]
        ELSE [m |-> [panels |-> m.panels @@ (pid :> r.p),
                     next_id |-> m.next_id + 1],
              c |-> r.c]

\* ImpedancePanel._on_remove: the chart first, then the manager's callback
on_remove(m, c, pid) ==
    LET c1 == remove_impedance(c, pid)
    IN  IF c1.exc # "none" THEN [m |-> m, c |-> c1]
        ELSE remove_panel(m, c1, pid)

\* the user types `text` into line edit w of panel pid (textEdited)
text_edited(m, c, pid, w, text) ==
    LET p == m.panels[pid]
        q == CASE w = "zl_input" -> [p EXCEPT !.zl_input = text]
               [] w = "yl_input" -> [p EXCEPT !.yl_input = text]
               [] w = "z0_input" -> [p EXCEPT !.z0_input = text]
               [] OTHER -> [p EXCEPT !.y0_input = text]
        r == on_change(c, pid, q)
    IN  [m |-> [m EXCEPT !.panels[pid] = r.p], c |-> r.c]

\* ImpedancePanel._tog_swrc
panel_tog_swrc(m, c, pid) == [m |-> m, c |-> tog_swrc(c, pid)]

\* ImpedancePanel._on_pick_color: col is what the dialog returned, None for
\* a cancelled dialog
on_pick_color(m, c, pid, col) ==
    IF IsNone(col) THEN [m |-> m, c |-> [c EXCEPT !.exc = "none"]]
    ELSE [m |-> [m EXCEPT !.panels[pid].color_btn = col[1]],
          c |-> update_impedance(c, pid, None, None, col)]

\* clear_all: _remove_panel for every key, in the dict's (ascending) order
RECURSIVE clear_from(_, _, _)
clear_from(m, c, pid) ==
    IF pid >= m.next_id THEN [m |-> m, c |-> c]
    ELSE LET r == remove_panel(m, c, pid)
         IN  IF r.c.exc # "none" THEN r ELSE clear_from(r.m, r.c, pid + 1)

\* variant: clearing the manager restarts the numbering
clear_all_restart(m, c) ==
    LET r == clear_from(m, [c EXCEPT !.exc = "none"], 0)
    IN  [r EXCEPT !.m.next_id = 0]

clear_all(m, c) == clear_from(m, [c EXCEPT !.exc = "none"], 0)

Manager == [panels |-> panels, next_id |-> next_id]

\* a user action on the panels: r = [m, c] is what the handler leaves
Handler(name, r) ==
    /\ SetCanvas(r.c)
    /\ panels' = r.m.panels
    /\ next_id' = r.m.next_id
    /\ op' = name
    /\ UNCHANGED linkVars
    /\ calc' = calc
    /\ panel3' = panel3

AddPanel ==
    /\ Handler("add_panel", add_panel(Manager, Canvas))
    /\ assigned' = Append(assigned, next_id)

OnRemove(pid) ==
    /\ pid \in DOMAIN panels
    /\ Handler("on_remove", on_remove(Manager, Canvas, pid))
    /\ assigned' = assigned

TextEdited(pid, w, text) ==
    /\ pid \in DOMAIN panels
    /\ Handler("text_edited", text_edited(Manager, Canvas, pid, w, text))
    /\ assigned' = assigned

PanelTogSwrc(pid) ==
    /\ pid \in DOMAIN panels
    /\ Handler("panel_tog_swrc", panel_tog_swrc(Manager, Canvas, pid))
    /\ assigned' = assigned

OnPickColor(pid, col) ==
    /\ pid \in DOMAIN panels
    /\ Handler("on_pick_color", on_pick_color(Manager, Canvas, pid, col))
    /\ assigned' = assigned

ClearAll ==
    /\ Handler("clear_all", clear_all(Manager, Canvas))
    /\ assigned' = assigned

(***************************************************************************)
(* ImpedancePanel with the reciprocal link                                 *)
(* (src/src/impedance_input_panel.py).  The canvas this revision talks to  *)
(* is not part of the sources; the model keeps the keyword arguments the   *)
(* panel hands to update_cb.                                               *)
(***************************************************************************)
\* _parse: complex(text.strip().lower().replace('i', 'j')), None for
\* ValueError, on the texts the model types
parse(text) ==
    CASE text = "0+0j" -> Some(<<0, 0, 1>>)
      [] text = "0" -> Some(<<0, 0, 1>>)
      [] text = "50+0j" -> Some(<<50, 0, 1>>)
      [] text = "100" -> Some(<<100, 0, 1>>)
      [] text = "50I" -> Some(<<0, 50, 1>>)
      [] text = "0.02" -> Some(<<1, 0, 50>>)
      [] text = "0.01" -> Some(<<1, 0, 100>>)
      [] OTHER -> None

\* variant: a parseable impedance takes precedence over the admittance
linked_impedance_first(raw_z, raw_y, fallback) ==
    IF ~IsNone(raw_z) THEN raw_z[1]
    ELSE IF ~IsNone(raw_y) /\ ~CIsZero(raw_y[1]) THEN CDiv(<<1, 0, 1>>, raw_y[1])
    ELSE fallback

\* steps 2 and 3 of _on_change: a non-zero admittance is inverted, else the
\* parsed impedance is used, else the fallback
linked(raw_z, raw_y, fallback) ==
    IF ~IsNone(raw_y) /\ ~CIsZero(raw_y[1]) THEN CDiv(<<1, 0, 1>>, raw_y[1])
    ELSE IF ~IsNone(raw_z) THEN raw_z[1]
    ELSE fallback

\* ImpedancePanel.__init__ up to its closing _on_change()
new_panel2 ==
    [zl_input |-> "0+0j", yl_input |-> "", z0_input |-> "50+0j", y0_input |-> "",
     color |-> "default", tog_swrc_btn |-> FALSE,
     gamma_label |-> <<0, 0, 1>>, swr_label |-> <<1, 1>>]

\* ImpedancePanel._on_change of panel p: the panel it leaves, the keyword
\* arguments dispatched (None when the method did not get that far) and the
\* exception that escaped.  zL / z0 is Python complex division, which raises
\* for z0 = 0
on_change2(p, pid) ==
    LET raw_z0 == parse(p.z0_input)
        raw_y0 == parse(p.y0_input)
        raw_zL == parse(p.zl_input)
        raw_yL == parse(p.yl_input)
        z0 == linked(raw_z0, raw_y0, <<50, 0, 1>>)
        zL == linked(raw_zL, raw_yL, <<0, 0, 1>>)
    IN  IF CIsZero(z0)
        THEN [p |-> p, sent |-> None, exc |-> "ZeroDivisionError"]
        ELSE LET gamma == gamma_from_normalized(CDiv(zL, z0))
                 swr == swr_from_gamma(gamma)
             IN  [p |-> [p EXCEPT !.gamma_label = gamma, !.swr_label = swr],
                  sent |-> Some([pid |-> pid, zL |-> zL, yL |-> raw_yL,
                                 z0 |-> z0, y0 |-> raw_y0, color |-> p.color,
                                 swr |-> swr, ref_coeff |-> gamma,
                                 show_swr |-> p.tog_swrc_btn]),
                  exc |-> "none"]

\* a slot of the panel has run _on_change on the edited panel q
Slot2(name, q) ==
    LET r == on_change2(q, 0)
    IN  /\ panel2' = r.p
        /\ sent' = IF IsNone(r.sent) THEN sent ELSE r.sent
        /\ exc' = r.exc
        /\ op' = name
        /\ UNCHANGED <<grid, impedances, ax, created, seen>>
        /\ UNCHANGED mgrVars
        /\ calc' = calc
        /\ panel3' = panel3

\* textChanged of one of the four line edits
TextChanged2(w, text) ==
    Slot2(w,
          CASE w = "zl_input" -> [panel2 EXCEPT !.zl_input = text]
            [] w = "yl_input" -> [panel2 EXCEPT !.yl_input = text]
            [] w = "z0_input" -> [panel2 EXCEPT !.z0_input = text]
            [] OTHER -> [panel2 EXCEPT !.y0_input = text])

\* stateChanged of the "Show SWR Circle" check box
StateChanged2 ==
    Slot2("tog_swrc_btn", [panel2 EXCEPT !.tog_swrc_btn = ~@])

\* _pick_color with a valid color
PickColor2(col) ==
    Slot2("pick_color", [panel2 EXCEPT !.color = col])

(***************************************************************************)
(* The module-level functions called on their own                          *)
(* (src/main_application.py)                                               *)
(***************************************************************************)
\* a call fn(arg) has returned res
Call(fn, arg, res) ==
    /\ calc' = [fn |-> fn, arg |-> arg, res |-> res]
    /\ op' = fn
    /\ UNCHANGED <<grid, impedances, ax, exc, created, seen>>
    /\ UNCHANGED mgrVars
    /\ UNCHANGED linkVars
    /\ panel3' = panel3

GammaFromNormalized(z_norm) ==
    Call("gamma_from_normalized", z_norm, gamma_from_normalized(z_norm))

SwrFromGamma(gamma) ==
    Call("swr_from_gamma", gamma, swr_from_gamma(gamma))

(***************************************************************************)
(* The linked-field ImpedancePanel of src/yabasco.py                       *)
(***************************************************************************)
\* complex(txt) on the texts the fields can hold
parse3(text) ==
    CASE text = "100+50j" -> Some(<<100, 50, 1>>)
      [] text = "0.008-0.004j" -> Some(<<2, -1, 250>>)
      [] text = "100" -> Some(<<100, 0, 1>>)
      [] text = "100+0j" -> Some(<<100, 0, 1>>)
      [] text = "50" -> Some(<<50, 0, 1>>)
      [] text = "50+0j" -> Some(<<50, 0, 1>>)
      [] text = "0.02" -> Some(<<1, 0, 50>>)
      [] text = "0.02+0j" -> Some(<<1, 0, 50>>)
      [] text = "0.01+0j" -> Some(<<1, 0, 100>>)
      [] text = "0" -> Some(<<0, 0, 1>>)
      [] OTHER -> None

\* _format_complex: "%.6g" of the real part, the sign, "%.6g" of |imag|, "j"
format_complex(c) ==
    CASE c = <<100, 50, 1>> -> "100+50j"
      [] c = <<2, -1, 250>> -> "0.008-0.004j"
      [] c = <<100, 0, 1>> -> "100+0j"
      [] c = <<50, 0, 1>> -> "50+0j"
      [] c = <<1, 0, 50>> -> "0.02+0j"
      [] c = <<1, 0, 100>> -> "0.01+0j"
      [] OTHER -> "0+0j"

paired(w) ==
    CASE w = "zl_input" -> "yl_input"
      [] w = "yl_input" -> "zl_input"
      [] w = "z0_input" -> "y0_input"
      [] OTHER -> "z0_input"

\* ImpedancePanel.__init__: the four fields; no signal is blocked, nothing
\* has been computed
new_panel3 ==
    [zl_input |-> "100+50j", yl_input |-> "0.008-0.004j",
     z0_input |-> "50", y0_input |-> "0.02+0j",
     blocked |-> {}, labels |-> "N/A", plotted |-> None,
     runs |-> 0, redraws |-> 0]

\* _update_chart: Z0 and ZL are the handler's value or the text of the
\* field; gamma_from_z divides by Z + Z0 and plot_chart by Z0; any exception
\* turns the labels to "Error"
update_chart(s, Z0, ZL) ==
    LET z0 == IF IsNone(Z0) THEN parse3(s.z0_input) ELSE Z0
        zl == IF IsNone(ZL) THEN parse3(s.zl_input) ELSE ZL
    IN  IF IsNone(z0) \/ IsNone(zl) THEN [s EXCEPT !.labels = "Error"]
        ELSE IF CIsZero(Cx(zl[1][1] * z0[1][3] + z0[1][1] * zl[1][3],
                           zl[1][2] * z0[1][3] + z0[1][2] * zl[1][3],
                           zl[1][3] * z0[1][3]))
        THEN [s EXCEPT !.labels = "Error"]
        ELSE IF CIsZero(z0[1])
        THEN [s EXCEPT !.labels = "Error", !.redraws = @ + 1]
        ELSE [s EXCEPT !.labels = "ok", !.redraws = @ + 1,
                       !.plotted = Some(<<z0[1], zl[1]>>)]

RECURSIVE set_text_emitting(_, _, _)
RECURSIVE set_text(_, _, _)
RECURSIVE on_text_changed(_, _, _)

\* variant: the rewrite emits textChanged although the field is blocked
set_text_emitting(s, w, text) ==
    IF s[w] = text THEN s
    ELSE on_text_changed([s EXCEPT ![w] = text], w, text)

\* QLineEdit.setText: textChanged is emitted when the text differs and the
\* widget's signals are not blocked; the connected handler runs at once
set_text(s, w, text) ==
    IF s[w] = text THEN s
    ELSE IF w \in s.blocked THEN [s EXCEPT ![w] = text]
    ELSE on_text_changed([s EXCEPT ![w] = text], w, text)

\* _on_zl_changed, _on_yl_changed, _on_z0_changed, _on_y0_changed: parse,
\* take the reciprocal, rewrite the paired field with its signals blocked,
\* update the chart; a bare except swallows the ValueError of complex()
\* and the ZeroDivisionError of 1/value
on_text_changed(s, w, txt) ==
    LET s0 == [s EXCEPT !.runs = @ + 1]
        v == parse3(txt)
    IN  IF IsNone(v) \/ CIsZero(v[1]) THEN s0
        ELSE LET r == CDiv(<<1, 0, 1>>, v[1])
                 s1 == [s0 EXCEPT !.blocked = @ \cup {paired(w)}]
                 s2 == set_text(s1, paired(w), format_complex(r))
                 s3 == [s2 EXCEPT !.blocked = @ \ {paired(w)}]
             IN  CASE w = "zl_input" -> update_chart(s3, None, v)
                   [] w = "yl_input" -> update_chart(s3, None, Some(r))
                   [] w = "z0_input" -> update_chart(s3, v, None)
                   [] OTHER -> update_chart(s3, Some(r), None)

\* the user changes the text of field w to `text`: one cascade, counted
\* from zero
UserEdit3(w, text) ==
    /\ panel3[w] # text
    /\ panel3' = set_text([panel3 EXCEPT !.runs = 0, !.redraws = 0], w, text)
    /\ op' = w
    /\ UNCHANGED <<grid, impedances, ax, exc, created, seen>>
    /\ UNCHANGED mgrVars
    /\ UNCHANGED linkVars
    /\ calc' = calc

(***************************************************************************)
(* Inputs of the operations                                                *)
(***************************************************************************)
ZLIn == {<<100, 0>>}
Z0In == {<<0, 0>>}
ColorIn == {UserColor}

ParamNames ==
    {"num_r_outer", "num_r_inner", "num_x", "label_r_every", "label_x_every",
     "x_label_at_r", "show_radial", "show_unit", "show_r1",
     "grid_color", "r1_color", "gamma_color"}

\* the keyword records naming exactly the parameters in S
GridKw(S, counts, inner, xs, rstride, xstride, radius) ==
    LET arg(n, V) == IF n \in S THEN {Some(v) : v \in V} ELSE {None}
    IN  [num_r_outer : arg("num_r_outer", counts),
         num_r_inner : arg("num_r_inner", inner),
         num_x : arg("num_x", xs),
         label_r_every : arg("label_r_every", rstride),
         label_x_every : arg("label_x_every", xstride),
         x_label_at_r : arg("x_label_at_r", radius),
         show_radial : arg("show_radial", {FALSE}),
         show_unit : arg("show_unit", {FALSE}),
         show_r1 : arg("show_r1", {FALSE}),
         grid_color : arg("grid_color", {GridColorIn}),
         r1_color : arg("r1_color", {R1ColorIn}),
         gamma_color : arg("gamma_color", {GammaColorIn})]

\* the sets of parameters one call names: none, one, or grid_color with one
\* other
NamedSets ==
    {{}} \cup {{n} : n \in ParamNames} \cup {{"grid_color", n} : n \in ParamNames}

\* outer circle counts: below the panel's minimum, the minimum, scenario D
OuterCounts == {0, 1, 3}

\* calls of update_grid, with values in and out of the ranges the settings
\* panel declares
GridCalls ==
    UNION {GridKw(S, OuterCounts, {1}, {-1}, {0}, {0}, {0}) : S \in NamedSets}

\* what the user types into which line edit
Edits == {<<"zl_input", "100">>, <<"z0_input", "0">>}

\* the same for the single-panel workload: more values, malformed text, the
\* way back from Z0 = 0, and the two admittance fields
EditsOne ==
    {<<"zl_input", "100">>, <<"zl_input", "50i">>, <<"zl_input", "abc">>,
     <<"z0_input", "0">>, <<"z0_input", "50+0j">>,
     <<"yl_input", "100">>, <<"y0_input", "100">>}

\* the calls the trace workload mixes in: a negative arc count and the
\* default one
CanvasGridCalls ==
    GridKw({"num_x"}, {}, {}, {-1, 9}, {}, {}, {})

(***************************************************************************)
(* Specifications                                                          *)
(***************************************************************************)
Init ==
    /\ grid = grid_defaults
    /\ impedances = <<>>
    /\ ax = draw_chart(<<>>, grid_defaults, <<>>).ax
    /\ exc = "none"
    /\ op = "init"
    /\ created = 0
    /\ seen = {}
    /\ panels = <<>>
    /\ next_id = 0
    /\ assigned = <<>>
    /\ panel2 = on_change2(new_panel2, 0).p
    /\ sent = on_change2(new_panel2, 0).sent
    /\ calc = [fn |-> "none", arg |-> <<0, 0, 1>>, res |-> <<>>]
    /\ panel3 = new_panel3

\* the canvas driven through its trace operations
Next ==
    \/ \E pid \in Pids, zL \in Opt(ZLIn), z0 \in Opt(Z0In), color \in Opt(ColorIn) :
          /\ pid \notin Ids(impedances) => created < MaxCreated
          /\ UpdateImpedance(pid, zL, z0, color)
    \/ \E pid \in Pids : TogSwrc(pid)
    \/ \E pid \in Pids : RemoveImpedance(pid)
    \/ \E kw \in CanvasGridCalls : UpdateGrid(kw)
    \/ DrawChart

Spec == Init /\ [][Next]_vars

\* the canvas driven through update_grid, with one trace on the chart
NextGrid ==
    \/ \E kw \in GridCalls : UpdateGrid(kw)
    \/ UpdateImpedance(0, None, None, None)

SpecGrid == Init /\ [][NextGrid]_vars

\* the application driven through the impedance panels
NextApp ==
    \/ next_id < MaxIds /\ AddPanel
    \/ \E pid \in DOMAIN panels : OnRemove(pid)
    \/ \E pid \in DOMAIN panels, e \in Edits : TextEdited(pid, e[1], e[2])
    \/ \E pid \in DOMAIN panels : PanelTogSwrc(pid)
    \/ \E pid \in DOMAIN panels, col \in Opt(ColorIn) : OnPickColor(pid, col)
    \/ ClearAll

SpecApp == Init /\ [][NextApp]_vars

\* the application with one impedance panel at a time
NextOne ==
    \/ panels = <<>> /\ next_id < MaxIds /\ AddPanel
    \/ \E pid \in DOMAIN panels : OnRemove(pid)
    \/ \E pid \in DOMAIN panels, e \in EditsOne : TextEdited(pid, e[1], e[2])
    \/ \E pid \in DOMAIN panels : PanelTogSwrc(pid)
    \/ \E pid \in DOMAIN panels, col \in Opt(ColorIn) : OnPickColor(pid, col)
    \/ ClearAll

SpecOne == Init /\ [][NextOne]_vars

\* what the user types into the line edits of the linked panel
ImpedanceTexts == {"0+0j", "100", "50I", "abc"}
AdmittanceTexts == {"", "0", "0.02"}
ReferenceTexts == {"50+0j", "0", "abc"}

\* the linked panel driven through its slots
NextLink ==
    \/ \E t \in ImpedanceTexts : TextChanged2("zl_input", t)
    \/ \E t \in AdmittanceTexts : TextChanged2("yl_input", t)
    \/ \E t \in ReferenceTexts : TextChanged2("z0_input", t)
    \/ \E t \in AdmittanceTexts : TextChanged2("y0_input", t)
    \/ StateChanged2
    \/ \E col \in ColorIn : PickColor2(col)

SpecLink == Init /\ [][NextLink]_vars

\* normalized impedances (a + bj)/d with small numerators, -1 among them
\* points of a path, in thousandths: the origin, a point on the unit circle,
\* one just outside it and one far outside
PointIn == {<<0, 0>>, <<600, 800>>, <<1001, 0>>, <<0, -2000>>}

RECURSIVE PathsOf(_)
PathsOf(n) ==
    IF n = 0 THEN {<<>>}
    ELSE LET shorter == PathsOf(n - 1)
         IN  shorter \cup {Append(p, pt) : p \in {q \in shorter : Len(q) = n - 1},
                                           pt \in PointIn}

PathIn == PathsOf(MaxPath)

PlotInside(path) == Call("plot_inside", path, plot_inside(path))

\* the clipping helper called on its own
NextClip == \E path \in PathIn : PlotInside(path)

SpecClip == Init /\ [][NextClip]_vars

\* the inner part of _draw_resistance_circles for one inner count
InnerResistanceCircles(n) ==
    Call("inner_resistance_circles", n, inner_resistance_circles(n))

\* the arcs of _draw_reactance_arcs_and_labels for one arc count
ReactanceArcs(n) == Call("reactance_arcs", n, reactance_arcs(n))

\* _draw_resistance_labels for given counts and stride.  The label calls
\* record <<outer count, inner count, arc count, resistance stride,
\* reactance stride>> and the labelled positions <<outer, inner, +jX, -jX>>
ResistanceLabels(n_outer, n_inner, every) ==
    Call("resistance_labels", <<n_outer, n_inner, 0, every, every>>,
         resistance_label_positions(n_outer, n_inner, every) \o <<{}, {}>>)

\* the labels of _draw_reactance_arcs_and_labels for a given count and stride
ReactanceLabels(n_x, every) ==
    Call("reactance_labels", <<0, 0, n_x, every, every>>,
         <<{}, {}>> \o reactance_label_positions(n_x, every))

\* the labels of plot_chart (src/yabasco.py)
PlotChartLabels(n_outer, n_inner, n_x, r_every, x_every) ==
    Call("plot_chart_labels", <<n_outer, n_inner, n_x, r_every, x_every>>,
         plot_chart_label_positions(n_outer, n_inner, n_x, r_every, x_every))

CountIn == 0..MaxCount
CountSome == {0, 2, MaxCount}
StrideIn == 1..MaxStride

\* the grid families drawn on their own
NextFam ==
    \/ \E n \in CountIn : InnerResistanceCircles(n)
    \/ \E n \in CountIn : ReactanceArcs(n)
    \/ \E n_outer \in CountIn, n_inner \in CountIn, every \in StrideIn :
          ResistanceLabels(n_outer, n_inner, every)
    \/ \E n_x \in CountIn, every \in StrideIn : ReactanceLabels(n_x, every)
    \/ \E n_outer \in CountSome, n_inner \in CountSome, n_x \in CountSome,
          r_every \in StrideIn, x_every \in StrideIn :
          PlotChartLabels(n_outer, n_inner, n_x, r_every, x_every)

SpecFam == Init /\ [][NextFam]_vars

\* what the user types into the fields of the linked panel
LoadTexts3 == {"100", "0", "abc"}
LoadAdmittanceTexts3 == {"0.02", "0.01+0j"}
ReferenceTexts3 == {"100", "0"}
ReferenceAdmittanceTexts3 == {"0.02", "abc"}

\* the linked panel of src/yabasco.py driven by user edits
NextLinked ==
    \/ \E t \in LoadTexts3 : UserEdit3("zl_input", t)
    \/ \E t \in LoadAdmittanceTexts3 : UserEdit3("yl_input", t)
    \/ \E t \in ReferenceTexts3 : UserEdit3("z0_input", t)
    \/ \E t \in ReferenceAdmittanceTexts3 : UserEdit3("y0_input", t)

SpecLinked == Init /\ [][NextLinked]_vars

ZNormIn == {Cx(a, b, d) : a \in -3..3, b \in -3..3, d \in 1..3}

\* reflection coefficients of rational magnitude: real, imaginary, and on
\* the 3-4-5 directions; inside, on and outside the unit circle
GammaIn ==
    {Cx(a, 0, d) : a \in -4..4, d \in 1..4}
    \cup {Cx(0, b, d) : b \in -4..4, d \in 1..4}
    \cup {Cx(3 * u, 4 * v, 5 * d) : u \in {-1, 1}, v \in {-1, 1}, d \in 1..2}
    \cup {Cx(4 * u, 3 * v, 5 * d) : u \in {-1, 1}, v \in {-1, 1}, d \in 1..2}

\* the two functions called on their own
NextCalc ==
    \/ \E z_norm \in ZNormIn : GammaFromNormalized(z_norm)
    \/ \E gamma \in GammaIn : SwrFromGamma(gamma)

SpecCalc == Init /\ [][NextCalc]_vars

(***************************************************************************)
(* Properties                                                              *)
(***************************************************************************)
\* C1: once a trace has been removed, a later update_impedance on its id is
\* a no-op: the trace map still has no entry for the id and the id appears
\* neither among the primitives of the scene nor in the legend.
C1_UpdateAfterRemoveIsNoOp ==
    [][\A pid \in Pids :
          (op' = "update_impedance" /\ pid \in seen /\ pid \notin Ids(impedances))
          => /\ pid \notin Ids(impedances')
             /\ \A k \in 1..Len(ax') :
                   /\ ax'[k].kind \in {"marker", "radial", "annotation", "swr_circle"}
                      => ax'[k].id # pid
                   /\ ax'[k].kind = "legend"
                      => \A i \in 1..Len(ax'[k].geom) : ax'[k].geom[i] # pid]_vars

\* C2: the k-th trace ever created (k from 0, removed traces counted) gets
\* COLOR_CYCLE[k mod 9] unless the creating call supplies a color.
C2_ColorByCreationOrder ==
    [][\A pid \in Pids :
          (op' = "update_impedance" /\ pid \notin Ids(impedances)
           /\ pid \in Ids(impedances'))
          => Trace(impedances', pid).color
                 \in {COLOR_CYCLE[(created % Len(COLOR_CYCLE)) + 1]} \cup ColorIn]_vars

\* C3: the ids the manager assigns are strictly increasing, so none is
\* assigned twice, whatever was added, removed or cleared in between.
C3_IdsStrictlyIncreasing ==
    \A i \in 1..Len(assigned) : \A j \in 1..Len(assigned) :
        i < j => assigned[i] < assigned[j]

\* C3 witness: a second id has been assigned after the first panel was
\* removed, and it is not the first one again.
C3_Witness ==
    /\ op = "add_panel"
    /\ Len(assigned) = 2
    /\ DOMAIN panels = {assigned[2]}
    /\ Ids(impedances) = {assigned[2]}

\* C4: after a mutation operation has returned, the scene on display is the
\* complete scene derived from the current chart parameters and trace map.
C4_SceneFollowsState ==
    (op \in {"update_impedance", "tog_swrc", "remove_impedance", "update_grid"}
     /\ exc = "none")
    => LET d == draw_chart(<<>>, grid, impedances)
       IN  d.exc = "none" /\ ax = d.ax

\* C5: a render changes no chart parameter and no trace, and a render that
\* directly follows a render shows the identical list of primitives.
C5_RenderIsPure ==
    [][op' = "draw_chart"
       => /\ grid' = grid
          /\ impedances' = impedances
          /\ op = "draw_chart" => ax' = ax]_vars

\* C5 witness: a render of a chart holding two traces, one with its SWR
\* circle shown.
C5_Witness ==
    /\ op = "draw_chart"
    /\ Len(impedances) = 2
    /\ \E k \in 1..Len(ax) : ax[k].kind = "swr_circle"
    /\ \E k \in 1..Len(ax) : ax[k].kind = "legend"

C8_GridWithinMinimums ==
    /\ grid.num_r_outer_lines >= 1
    /\ grid.num_r_inner_lines >= 1
    /\ grid.num_x_lines >= 1
    /\ grid.x_label_at_r > 0

\* C9: update_impedance on an existing trace leaves every field it was not
\* given (show_swr among them), every other trace and the chart parameters
\* unchanged.
C9_UpdateChangesOnlySupplied ==
    [][\A pid \in Pids, zL \in Opt(ZLIn), z0 \in Opt(Z0In), color \in Opt(ColorIn) :
          (op' = "update_impedance" /\ pid \in Ids(impedances)
           /\ impedances' = updated_impedances(impedances, pid, zL, z0, color))
          => /\ Len(impedances') = Len(impedances)
             /\ \A k \in 1..Len(impedances) :
                   IF impedances[k].pid # pid THEN impedances'[k] = impedances[k]
                   ELSE /\ impedances'[k].pid = pid
                        /\ impedances'[k].show_swr = impedances[k].show_swr
                        /\ IsNone(zL) => impedances'[k].zL = impedances[k].zL
                        /\ IsNone(z0) => impedances'[k].z0 = impedances[k].z0
                        /\ IsNone(color) => impedances'[k].color = impedances[k].color
             /\ grid' = grid]_vars

\* C9 witness: the second trace created, with its SWR circle switched on
\* since, has been updated and still shows the circle next to an untouched
\* first trace.
C9_Witness ==
    /\ op = "update_impedance"
    /\ created = 2
    /\ Len(impedances) = 2
    /\ impedances[2].show_swr
    /\ impedances[2].zL = <<100, 0>>
    /\ impedances[2].z0 = <<50, 0>>
    /\ impedances[2].color = UserColor
    /\ impedances[1].zL = <<50, 0>>
    /\ ~impedances[1].show_swr

\* C10: tog_swrc on an existing trace negates its show_swr and leaves its
\* zL, z0 and color, every other trace and the chart parameters unchanged;
\* on an id without a trace it changes nothing.
C10_ToggleOnlyFlipsFlag ==
    [][\A pid \in Pids :
          TogSwrc(pid)
          => IF pid \in Ids(impedances)
             THEN /\ Len(impedances') = Len(impedances)
                  /\ \A k \in 1..Len(impedances) :
                        IF impedances[k].pid # pid
                        THEN impedances'[k] = impedances[k]
                        ELSE /\ impedances'[k].show_swr = ~impedances[k].show_swr
                             /\ impedances'[k].pid = pid
                             /\ impedances'[k].zL = impedances[k].zL
                             /\ impedances'[k].z0 = impedances[k].z0
                             /\ impedances'[k].color = impedances[k].color
                  /\ grid' = grid
             ELSE /\ impedances' = impedances
                  /\ grid' = grid
                  /\ ax' = ax]_vars

\* C10 witness: after a toggle, one trace with edited fields shows its SWR
\* circle and the other does not.
C10_Witness ==
    /\ op = "tog_swrc"
    /\ Len(impedances) = 2
    /\ impedances[1].show_swr
    /\ impedances[1].zL = <<100, 0>>
    /\ impedances[1].color = UserColor
    /\ ~impedances[2].show_swr
    /\ \E k \in 1..Len(ax) : ax[k].kind = "swr_circle" /\ ax[k].id = impedances[1].pid

\* C11: remove_impedance(id) deletes exactly the entry of id and leaves every
\* other trace and the chart parameters unchanged; on an id whose trace has
\* been removed, remove_impedance and tog_swrc change nothing.
C11_RemoveDeletesOnlyThatTrace ==
    [][\A pid \in Pids :
          /\ RemoveImpedance(pid)
             => /\ Ids(impedances') = Ids(impedances) \ {pid}
                /\ \A q \in Ids(impedances') :
                      Trace(impedances', q) = Trace(impedances, q)
                /\ grid' = grid
          /\ (pid \in seen /\ pid \notin Ids(impedances)
              /\ (RemoveImpedance(pid) \/ TogSwrc(pid)))
             => /\ impedances' = impedances
                /\ grid' = grid
                /\ ax' = ax]_vars

\* C11 witness: one of two traces has been removed; the other, with its SWR
\* circle on and a picked color, is still there.
C11_Witness ==
    /\ op = "remove_impedance"
    /\ created = 2
    /\ Cardinality(seen) = 2
    /\ Len(impedances) = 1
    /\ impedances[1].show_swr
    /\ impedances[1].color = UserColor
    /\ impedances[1].zL = <<100, 0>>

\* C12: a newly registered trace, before any user edit, has Z_L = 50+0j,
\* Z0 = 50+0j and its SWR circle off: on the canvas every trace is created
\* with these values unless the creating call supplies others, and the
\* registration a freshly built panel dispatches carries them.
C12_NewTraceDefaults ==
    /\ \A pid \in Pids :
          new_trace(impedances, pid, None, None).zL = <<50, 0>>
          /\ new_trace(impedances, pid, None, None).z0 = <<50, 0>>
          /\ ~new_trace(impedances, pid, None, None).show_swr
    /\ op = "init"
       => /\ ~IsNone(sent)
          /\ sent[1].zL = <<50, 0, 1>>
          /\ sent[1].z0 = <<50, 0, 1>>
          /\ ~sent[1].show_swr

\* C13: with a reference impedance Z0 = 0 no operation lets an error escape:
\* the edit handler completes, and the redraw skips the trace whose Z0 is 0
\* (no marker, line or SWR circle for it) while drawing every other trace.
C13_ZeroReferenceIsSkipped ==
    /\ \A k \in 1..Len(impedances) :
          IF Drawable(impedances[k])
          THEN (op = "update_impedance" /\ exc = "none")
               => \E i \in 1..Len(ax) :
                     ax[i].kind = "marker" /\ ax[i].id = impedances[k].pid
          ELSE \A i \in 1..Len(ax) :
                  ax[i].kind \in {"marker", "radial", "annotation", "swr_circle"}
                  => ax[i].id # impedances[k].pid
    /\ (op = "z0_input" /\ parse(panel2.z0_input) = Some(<<0, 0, 1>>))
       => exc = "none"

\* C14: in each pair (Y_L with Z_L, Y0 with Z0) of the linked panel, a
\* non-zero admittance makes the impedance passed to the chart its reciprocal
\* and is itself passed on as typed; with a zero or absent admittance the
\* impedance typed is passed unchanged.
C14_ReciprocalLink ==
    exc = "none"
    => \A pair \in {<<parse(panel2.zl_input), parse(panel2.yl_input),
                     sent[1].zL, sent[1].yL>>,
                    <<parse(panel2.z0_input), parse(panel2.y0_input),
                      sent[1].z0, sent[1].y0>>} :
          LET raw_z == pair[1]
              raw_y == pair[2]
              z == pair[3]
          IN  IF ~IsNone(raw_y) /\ raw_y[1] # <<0, 0, 1>>
              THEN \* z * y = 1
                   /\ z[1] * raw_y[1][1] - z[2] * raw_y[1][2] = z[3] * raw_y[1][3]
                   /\ z[1] * raw_y[1][2] + z[2] * raw_y[1][1] = 0
                   /\ pair[4] = raw_y
              ELSE ~IsNone(raw_z) => z = raw_z[1]

\* C14 witness: an admittance of 0.02 typed next to an impedance of 100 has
\* sent 50 to the chart, and an impedance typed next to a zero admittance
\* has been sent as it is.
C14_Witness ==
    /\ exc = "none"
    /\ op = "yl_input"
    /\ panel2.zl_input = "100"
    /\ panel2.yl_input = "0.02"
    /\ sent[1].zL = <<50, 0, 1>>
    /\ sent[1].yL = Some(<<1, 0, 50>>)
    /\ panel2.y0_input = "0"
    /\ sent[1].z0 = <<50, 0, 1>>

\* C15: within a pair the field edited last is authoritative: after an edit
\* of Z_L (Z0) the impedance used for the trace is the value typed, and
\* after an edit of Y_L (Y0) to a non-zero admittance it is the reciprocal
\* of the value typed.
C15_LastEditedIsAuthoritative ==
    [][/\ \A t \in ImpedanceTexts :
             (TextChanged2("zl_input", t) /\ ~IsNone(parse(t)) /\ exc' = "none")
             => sent'[1].zL = parse(t)[1]
       /\ \A t \in ReferenceTexts :
             (TextChanged2("z0_input", t) /\ ~IsNone(parse(t)) /\ exc' = "none")
             => sent'[1].z0 = parse(t)[1]
       /\ \A t \in AdmittanceTexts :
             (TextChanged2("yl_input", t) /\ ~IsNone(parse(t))
              /\ parse(t) # Some(<<0, 0, 1>>) /\ exc' = "none")
             => sent'[1].zL = CDiv(<<1, 0, 1>>, parse(t)[1])
       /\ \A t \in AdmittanceTexts :
             (TextChanged2("y0_input", t) /\ ~IsNone(parse(t))
              /\ parse(t) # Some(<<0, 0, 1>>) /\ exc' = "none")
             => sent'[1].z0 = CDiv(<<1, 0, 1>>, parse(t)[1])]_vars

\* C16: when one of the four fields of a panel holds text that is no complex
\* number (an empty admittance field counts as absent, not as malformed),
\* the edit handler makes no call to the chart's update_impedance.
C16_MalformedTextIsNotSent ==
    [][(op' \in {"zl_input", "yl_input", "z0_input", "y0_input"}
        /\ \E w \in {"zl_input", "yl_input", "z0_input", "y0_input"} :
              panel2'[w] # "" /\ IsNone(parse(panel2'[w])))
       => sent' = sent]_vars

\* C17: gamma_from_normalized returns (z_norm - 1)/(z_norm + 1) for every
\* z_norm other than -1 (its result times z_norm + 1 is z_norm - 1) and the
\* infinite sentinel for z_norm = -1.
C17_GammaFromNormalized ==
    calc.fn = "gamma_from_normalized"
    => LET z == calc.arg
           g == calc.res
       IN  IF z[1] = -z[3] /\ z[2] = 0 THEN g = CInf
           ELSE /\ g[3] > 0
                /\ g[1] * (z[1] + z[3]) - g[2] * z[2] = g[3] * (z[1] - z[3])
                /\ g[1] * z[2] + g[2] * (z[1] + z[3]) = g[3] * z[2]

\* C17 witness: the function has been called with z_norm = -1.
C17_Witness ==
    /\ calc.fn = "gamma_from_normalized"
    /\ calc.arg = <<-1, 0, 1>>
    /\ calc.res[3] = 0

\* C18: swr_from_gamma returns the infinity sentinel exactly when
\* |Gamma| >= 1; below that it returns (1+|Gamma|)/(1-|Gamma|), which is 1
\* at Gamma = 0, never below 1, and no smaller for a larger |Gamma|.
C18_SwrFromGamma ==
    [][calc'.fn = "swr_from_gamma"
       => LET g == calc'.arg
              r == calc'.res
          IN  /\ r = <<1, 0>> <=> g[1] * g[1] + g[2] * g[2] >= g[3] * g[3]
              /\ r # <<1, 0>>
                 => \* r = n/k >= 1 and |g| = (n - k)/(n + k)
                    /\ r[2] > 0
                    /\ r[1] >= r[2]
                    /\ (r[1] - r[2]) * (r[1] - r[2]) * g[3] * g[3]
                       = (g[1] * g[1] + g[2] * g[2]) * (r[1] + r[2]) * (r[1] + r[2])
              /\ g = <<0, 0, 1>> => r = <<1, 1>>
              /\ (calc.fn = "swr_from_gamma"
                  /\ (calc.arg[1] * calc.arg[1] + calc.arg[2] * calc.arg[2])
                     * g[3] * g[3]
                     <= (g[1] * g[1] + g[2] * g[2]) * calc.arg[3] * calc.arg[3])
                 => calc.res[1] * r[2] <= r[1] * calc.res[2]]_vars

\* C18 witness: the function has been called inside the unit circle, off the
\* real axis, and returned a finite ratio above 1.
C18_Witness ==
    /\ calc.fn = "swr_from_gamma"
    /\ calc.arg = <<3, 4, 10>>
    /\ calc.res = <<3, 1>>

\* C19: end to end, a panel whose Z0 is 50 shows the Gamma and SWR of the
\* values typed, and the chart holds and plots the same trace: Z_L = 50 gives
\* Gamma = 0 and SWR = 1, Z_L = 100 gives Gamma = 1/3 and SWR = 2, and
\* Z_L = 50j gives |Gamma| = 1 and the infinite SWR.
C19_EndToEnd ==
    \A pid \in DOMAIN panels :
        LET p == panels[pid]
            shown(gamma, swr) ==
                /\ p.gamma_label = gamma
                /\ p.swr_label = swr
                /\ \E i \in 1..Len(ax) :
                      ax[i].kind = "marker" /\ ax[i].id = pid /\ ax[i].geom = gamma
        IN  p.z0_input = "50+0j"
            => /\ pid \in Ids(impedances)
               /\ Trace(impedances, pid).z0 = <<50, 0>>
               /\ p.zl_input = "50+0j"
                  => Trace(impedances, pid).zL = <<50, 0>>
                     /\ shown(<<0, 0, 1>>, <<1, 1>>)
               /\ p.zl_input = "100"
                  => Trace(impedances, pid).zL = <<100, 0>>
                     /\ shown(<<1, 0, 3>>, <<2, 1>>)
               /\ p.zl_input = "50i"
                  => Trace(impedances, pid).zL = <<0, 50>>
                     /\ shown(<<0, 1, 1>>, <<1, 0>>)

\* C19 witness: the second panel of the run has been edited to 100 over 50
\* and shows Gamma = 1/3 and SWR = 2, with the marker at 1/3 on the chart.
C19_Witness ==
    /\ op = "text_edited"
    /\ DOMAIN panels = {1}
    /\ panels[1].zl_input = "100"
    /\ panels[1].z0_input = "50+0j"
    /\ panels[1].gamma_label = <<1, 0, 3>>
    /\ panels[1].swr_label = <<2, 1>>
    /\ Trace(impedances, 1).show_swr
    /\ \E i \in 1..Len(ax) :
          ax[i].kind = "marker" /\ ax[i].id = 1 /\ ax[i].geom = <<1, 0, 3>>

\* C20: update_grid(num_r_outer = N) with N >= 1 leaves, after its redraw,
\* exactly N outer resistance circles on the axes, one for each integer
\* R = 1..N, with center R/(R+1) and radius 1/(R+1), so that center + radius
\* = 1 and every circle passes through (1, 0).
OuterCircles(a) ==
    {i \in 1..Len(a) : a[i].kind = "resistance_circle"}

C20_OuterResistanceCircles ==
    [][\A kw \in GridCalls :
         (/\ ~IsNone(kw.num_r_outer)
          /\ kw.num_r_outer[1] >= 1
          /\ op' = "update_grid"
          /\ grid' = updated_grid(grid, kw))
         => LET N == kw.num_r_outer[1]
            IN  /\ Cardinality(OuterCircles(ax')) = N
                /\ \A R \in 1..N :
                      \E i \in OuterCircles(ax') :
                         /\ ax'[i].id = R
                         /\ ax'[i].geom = <<R, R + 1, 1, R + 1>>
                /\ \A i \in OuterCircles(ax') :
                      LET c == ax'[i].geom
                      IN  c[1] * c[4] + c[3] * c[2] = c[2] * c[4]]_vars

\* C20 witness: after update_grid(num_r_outer = 3) the axes hold the circles
\* of centers 1/2, 2/3, 3/4 and radii 1/2, 1/3, 1/4.
C20_Witness ==
    /\ op = "update_grid"
    /\ grid.num_r_outer_lines = 3
    /\ Cardinality(OuterCircles(ax)) = 3
    /\ ax[1].geom = <<1, 2, 1, 2>>
    /\ ax[2].geom = <<2, 3, 1, 3>>
    /\ ax[3].geom = <<3, 4, 1, 4>>

\* C21: _plot_inside plots the maximal runs of consecutive in-disk points, in
\* input order: every line is a run of consecutive positions under the mask
\* that cannot be extended on either side, the lines come in path order and
\* cover every in-disk point.  An all-inside path gives one line equal to the
\* path, an all-outside path gives none, and a path that leaves the disk and
\* re-enters it once gives two.
RunStarts(path) ==
    {i \in 1..Len(path) :
        Inside(path[i]) /\ (i = 1 \/ ~Inside(path[i - 1]))}

C21_ClipGivesMaximalRuns ==
    calc.fn = "plot_inside"
    => LET path == calc.arg
           lines == calc.res
           n == Len(path)
           In == {i \in 1..n : Inside(path[i])}
       IN  /\ Len(lines) = Cardinality(RunStarts(path))
           /\ \A k \in 1..Len(lines) :
                 LET seg == lines[k][1]
                     xy == lines[k][2]
                     lo == seg[1]
                     hi == seg[Len(seg)]
                 IN  /\ Len(seg) >= 1
                     /\ \A j \in 1..Len(seg) :
                           /\ seg[j] = lo + j - 1
                           /\ seg[j] \in In
                           /\ xy[j] = path[seg[j]]
                     /\ Len(xy) = Len(seg)
                     /\ lo = 1 \/ lo - 1 \notin In
                     /\ hi = n \/ hi + 1 \notin In
                     /\ k > 1 => lines[k - 1][1][Len(lines[k - 1][1])] < lo
           /\ \A i \in In : \E k \in 1..Len(lines) :
                 \E j \in 1..Len(lines[k][1]) : lines[k][1][j] = i
           /\ (In = 1..n /\ n >= 1) => (Len(lines) = 1 /\ lines[1][2] = path)
           /\ In = {} => lines = <<>>

\* C21 witness: a path that starts inside, leaves the disk and comes back has
\* been clipped into two lines.
C21_Witness ==
    /\ calc.fn = "plot_inside"
    /\ calc.arg = <<<<0, 0>>, <<600, 800>>, <<1001, 0>>, <<600, 800>>>>
    /\ Len(calc.res) = 2
    /\ calc.res[1] = <<<<1, 2>>, <<<<0, 0>>, <<600, 800>>>>>>
    /\ calc.res[2] = <<<<4>>, <<<<600, 800>>>>>>

\* C22: for an inner count N_i >= 1 the inner resistance values are N_i
\* evenly spaced values in (0, 1] and the largest one is exactly 1, also
\* when N_i = 1.
C22_InnerValuesReachOne ==
    (calc.fn = "inner_resistance_circles" /\ calc.arg >= 1)
    => LET n == calc.arg
           rs == [k \in 1..Len(calc.res) |-> calc.res[k][1]]
       IN  /\ Len(rs) = n
           /\ \A k \in 1..n : RLess(<<0, 1>>, rs[k]) /\ ~RLess(<<1, 1>>, rs[k])
           /\ \A k \in 2..(n - 1) :
                 RSub(rs[k], rs[k - 1]) = RSub(rs[k + 1], rs[k])
           /\ \A k \in 2..n : RLess(rs[k - 1], rs[k])
           /\ rs[n] = <<1, 1>>

\* C23: for a reactance count N_x >= 1 the reactance values are X = 1, 2,
\* ..., N_x (N_x values over (0, N_x], spaced by exactly 1), and each X gives
\* a +jX arc centered at (1, 1/X) and a -jX arc centered at (1, -1/X), both of
\* radius 1/X.
C23_ReactanceValuesAreIntegers ==
    (calc.fn = "reactance_arcs" /\ calc.arg >= 1)
    => LET n == calc.arg
           arcs == calc.res
       IN  /\ Len(arcs) = n
           /\ \A j \in 1..n :
                 arcs[j] = <<<<j, 1>>, <<1, j>>,
                             <<<<1, 1>>, <<1, j>>>>,
                             <<<<1, 1>>, <<-1, j>>>>>>
           /\ \A j \in 2..n : RSub(arcs[j][1], arcs[j - 1][1]) = <<1, 1>>

\* C24: grid labels follow the stride, counted from 1: with stride N >= 1 the
\* j-th circle or arc of a family (outer resistance, inner resistance,
\* reactance) is labelled exactly when j mod N = 0, and the +jX and -jX arcs
\* of one index are labelled together.
C24_LabelsFollowStride ==
    calc.fn \in {"resistance_labels", "reactance_labels", "plot_chart_labels"}
    => LET n_outer == calc.arg[1]
           n_inner == calc.arg[2]
           n_x == calc.arg[3]
           r_every == calc.arg[4]
           x_every == calc.arg[5]
           every_nth(n, N) == {j \in 1..n : j % N = 0}
       IN  /\ calc.res[1] = every_nth(n_outer, r_every)
           /\ calc.res[2] = every_nth(n_inner, r_every)
           /\ calc.res[3] = every_nth(n_x, x_every)
           /\ calc.res[4] = calc.res[3]

\* C25: the radial-guide-line toggle works: update_grid(show_radial = v)
\* stores v in show_radial, and after the redraw the radial guide lines are
\* on the axes exactly when show_radial is true.
C25_RadialToggleWorks ==
    [][\A kw \in GridCalls :
         (/\ ~IsNone(kw.show_radial)
          /\ op' = "update_grid"
          /\ grid' = updated_grid(grid, kw))
         => /\ grid'.show_radial = kw.show_radial[1]
            /\ exc' = "none"
               => ((\E i \in 1..Len(ax') : ax'[i].kind = "radial_lines")
                   <=> grid'.show_radial)]_vars

\* C26: in the panel of src/impedance_input_panel.py, when an edit leads to
\* chart.update_impedance and the YL field holds a non-zero value, the load
\* impedance passed is 1/YL; when the Y0 field holds a non-zero value, the
\* reference impedance passed is 1/Y0.
IsReciprocal(z, y) ==
    /\ z[1] * y[1] - z[2] * y[2] = 1
    /\ z[1] * y[2] + z[2] * y[1] = 0

C26_AdmittanceFieldsAreUsed ==
    op = "text_edited"
    => \A pid \in DOMAIN panels :
          LET p == panels[pid]
              zL == complex_of(p.zl_input)
              yl == complex_of(p.yl_input)
              z0 == complex_of(p.z0_input)
              y0 == complex_of(p.y0_input)
          IN  (/\ ~IsNone(zL) /\ ~IsNone(yl) /\ ~IsNone(z0) /\ ~IsNone(y0)
               /\ z0[1] # <<0, 0>>)
              => /\ yl[1] # <<0, 0>>
                    => IsReciprocal(Trace(impedances, pid).zL, yl[1])
                 /\ y0[1] # <<0, 0>>
                    => IsReciprocal(Trace(impedances, pid).z0, y0[1])

\* C27: after every add, field edit, color pick, SWR toggle or remove, the
\* ids of ImpedancePanelManager.panels are the ids of
\* SmithChartCanvas.impedances: every panel has its trace and no trace
\* outlives its panel.
C27_PanelsMatchTraces ==
    DOMAIN panels = Ids(impedances)

\* C27 witness: of two panels the first has been removed; the second and its
\* trace remain.
C27_Witness ==
    /\ op = "on_remove"
    /\ Len(assigned) = 2
    /\ DOMAIN panels = {1}
    /\ Ids(impedances) = {1}

\* C28: while at most 9 traces are live and every one of them carries a
\* palette color (none was given a color by the user), no two live traces
\* have the same color, whatever adds and removes came before.
C28_DefaultColorsDistinct ==
    (/\ Len(impedances) <= Len(COLOR_CYCLE)
     /\ \A k \in 1..Len(impedances) :
           \E n \in 1..Len(COLOR_CYCLE) : impedances[k].color = COLOR_CYCLE[n])
    => \A i \in 1..Len(impedances) : \A j \in 1..Len(impedances) :
          i # j => impedances[i].color # impedances[j].color

\* C29: in the linked-field panel of src/yabasco.py one user edit runs the
\* edited field's handler only: the paired field is rewritten with its
\* signals blocked (and unblocked again), its handler does not run, and the
\* chart is redrawn at most once.
C29_NoHandlerPingPong ==
    op \in {"zl_input", "yl_input", "z0_input", "y0_input"}
    => /\ panel3.runs = 1
       /\ panel3.redraws <= 1
       /\ panel3.blocked = {}
       /\ LET v == parse3(panel3[op])
          IN  (~IsNone(v) /\ ~CIsZero(v[1]))
              => panel3[paired(op)] = format_complex(CDiv(<<1, 0, 1>>, v[1]))

\* C29 witness: the user has typed 100 into ZL; YL was rewritten to 0.01+0j
\* and the chart was redrawn once.
C29_Witness ==
    /\ op = "zl_input"
    /\ panel3.zl_input = "100"
    /\ panel3.yl_input = "0.01+0j"
    /\ panel3.runs = 1
    /\ panel3.redraws = 1
    /\ panel3.labels = "ok"

\* C30: through the panel of src/impedance_input_panel.py no trace ever has
\* a stored reference impedance of 0: an edit that leaves 0 in the Z0 field
\* returns before chart.update_impedance and leaves the stored traces (zL,
\* z0, color, show_swr) as they were.
C30_ZeroReferenceNeverStored ==
    [][/\ \A k \in 1..Len(impedances') : impedances'[k].z0 # <<0, 0>>
       /\ \A pid \in DOMAIN panels : \A e \in EditsOne :
             (/\ TextEdited(pid, e[1], e[2])
              /\ complex_of(panels'[pid].z0_input) = Some(<<0, 0>>))
             => impedances' = impedances]_vars

\* C30 witness: the panel holds ZL = 100 typed after Z0 = 0; the chart still
\* has the trace as it was before, 50 over 50.
C30_Witness ==
    /\ op = "text_edited"
    /\ DOMAIN panels = {0}
    /\ panels[0].z0_input = "0"
    /\ panels[0].zl_input = "100"
    /\ Trace(impedances, 0).zL = <<50, 0>>
    /\ Trace(impedances, 0).z0 = <<50, 0>>

====
